---- MODULE Spec2Model ----
(***************************************************************************)
(* Attendance tracking: QR scan tokens, geofence and attendance records.  *)
(* Two backends are modelled side by side, as in the source:              *)
(*   - MockDatabase (src/src/utils/mockBackend.tsx lines 47-440), the     *)
(*     in-memory backend the UI calls through mockAPI;                    *)
(*   - the server routes (same file, lines 488-998), backed by a          *)
(*     key-value store.                                                   *)
(*                                                                         *)
(* Text is modelled as a sequence of chunks.  A chunk is either the       *)
(* single character ':' or a run of characters that holds no ':' (a       *)
(* literal, the decimal rendering of a number, or a hex digest).  Splitting*)
(* on ':' and JSON parsing are computed on these sequences.               *)
(***************************************************************************)
EXTENDS Integers, Sequences, FiniteSets, TLC

(***************************************************************************)
(* Chunks and text                                                         *)
(***************************************************************************)
\* a chunk is a pair <<kind, content>>: literal characters, the decimal
\* digits of a number, or a digest
Lit(s) == <<"l", s>>
Num(i) == <<"n", i>>
\* the hex digest of HMAC-SHA256 under key `key` of the text `msg`:
\* collision free, and a run of hex digits (no ':')
HmacHex(key, msg) == <<"h", key, msg>>

Colon == Lit(":")
Quote == Lit("\"")
Comma == Lit(",")
LBrace == Lit("{")
RBrace == Lit("}")
\* the value `undefined` of the language (no text equals it)
Undefined == <<<<"u", "">>>>

Str(s) == <<Lit(s)>>

\* String.prototype.split(':'): the pieces between the separators
RECURSIVE SplitColon(_)
SplitColon(text) ==
    IF \A i \in 1..Len(text) : text[i] # Colon
    THEN <<text>>
    ELSE LET i == CHOOSE j \in 1..Len(text) :
                      /\ text[j] = Colon
                      /\ \A h \in 1..(j-1) : text[h] # Colon
         IN <<SubSeq(text, 1, i-1)>> \o SplitColon(SubSeq(text, i+1, Len(text)))

\* const [token, signature] = qrData.split(':')
DestructureTwo(parts) ==
    [token |-> parts[1],
     signature |-> IF Len(parts) >= 2 THEN parts[2] ELSE Undefined]

(***************************************************************************)
(* JSON                                                                    *)
(***************************************************************************)
\* JSON.stringify({sessionId, scanType, timestamp, expiry}): key order is
\* insertion order, strings are quoted and a ':' inside a string is kept
JsonStringify(p) ==
    <<LBrace, Lit("\"sessionId\""), Colon, Quote>> \o p.sessionId \o
    <<Quote, Comma, Lit("\"scanType\""), Colon, Quote>> \o p.scanType \o
    <<Quote, Comma, Lit("\"timestamp\""), Colon, Num(p.timestamp),
      Comma, Lit("\"expiry\""), Colon, Num(p.expiry), RBrace>>

\* Values JSON.parse can give here: an object carrying the four payload
\* properties, a value with no property at all ({} , [] , a number, a
\* string), null, or a SyntaxError
JsObject(sid, st, ts, ex) ==
    [kind |-> "object", has |-> TRUE, sessionId |-> sid, scanType |-> st,
     timestamp |-> ts, expiry |-> ex]
JsNoProps == [kind |-> "object", has |-> FALSE, sessionId |-> Undefined,
              scanType |-> Undefined, timestamp |-> 0, expiry |-> 0]
JsNull == [kind |-> "null", has |-> FALSE, sessionId |-> Undefined,
           scanType |-> Undefined, timestamp |-> 0, expiry |-> 0]
JsSyntaxError == [kind |-> "error", has |-> FALSE, sessionId |-> Undefined,
                  scanType |-> Undefined, timestamp |-> 0, expiry |-> 0]

\* index of the first Quote chunk at or after position i (0 if none)
FirstQuoteFrom(text, i) ==
    IF \E j \in i..Len(text) : text[j] = Quote
    THEN CHOOSE j \in i..Len(text) :
            /\ text[j] = Quote
            /\ \A h \in i..(j-1) : text[h] # Quote
    ELSE 0

\* JSON.parse: reads the text back into a value.  The payload grammar is
\* read field by field; the text must be exactly a serialized payload.
JsonParse(text) ==
    IF text = <<LBrace, RBrace>> \/ text = <<Lit("[]")>> THEN JsNoProps
    ELSE IF text = <<Lit("null")>> THEN JsNull
    ELSE IF Len(text) < 5 \/ SubSeq(text, 1, 4) #
                <<LBrace, Lit("\"sessionId\""), Colon, Quote>>
    THEN JsSyntaxError
    ELSE LET q1 == FirstQuoteFrom(text, 5) IN
         IF q1 = 0 \/ Len(text) < q1 + 5 THEN JsSyntaxError
         ELSE LET sid == SubSeq(text, 5, q1 - 1)
                  q2  == FirstQuoteFrom(text, q1 + 5)
              IN IF q2 = 0 \/ Len(text) # q2 + 9 THEN JsSyntaxError
                 ELSE LET st == SubSeq(text, q1 + 5, q2 - 1)
                          ts == text[q2 + 4]
                          ex == text[q2 + 8]
                      IN IF /\ ts[1] = "n"
                            /\ ex[1] = "n"
                            /\ text = JsonStringify([sessionId |-> sid,
                                   scanType |-> st, timestamp |-> ts[2],
                                   expiry |-> ex[2]])
                         THEN JsObject(sid, st, ts[2], ex[2])
                         ELSE JsSyntaxError

(***************************************************************************)
(* Bounds of the model                                                     *)
(***************************************************************************)
\* clock reading at start-up, in ms (one day, so that "yesterday" is >= 0)
StartMillis == 86400000
\* the clock is observed at offsets k * QR_VALIDITY + j from StartMillis,
\* k in 0..MaxPeriods, j in 0..MaxJitter
MaxPeriods == 1
MaxJitter == 1
\* how far the clock may advance between two reads inside one handler
MaxSkew == 1
\* sessions a backend creates after start-up
MaxSessions == 1
\* scan tokens a backend issues after start-up
MaxTokens == 2
\* scan requests the server handles at the same time
MaxInflight == 2
\* sessions of one subject an attendance summary is computed over
MaxSummarySessions == 4

(***************************************************************************)
(* Program constants                                                       *)
(***************************************************************************)
JWT_SECRET == "university-attendance-secret-key"
\* 30 * 60 * 1000
QR_VALIDITY == 1800000
\* 24 * 60 * 60 * 1000
DAY_MILLIS == 86400000
\* 2 * 60 * 60 * 1000
TWO_HOURS == 7200000
\* CAMPUS_BOUNDARY / campusLat, campusLng, maxDistance; degrees * 10^6, metres
CAMPUS_LAT == 22303900
CAMPUS_LNG == 73362000
CAMPUS_RADIUS == 2000

(***************************************************************************)
(* Geodistance                                                             *)
(***************************************************************************)
\* A coordinate pair as the handler receives it: micro-degrees, or not a
\* number (a request body that carries no lat / lng)
Geo(lat, lng) == [lat |-> lat, lng |-> lng, nan |-> FALSE]
GeoNaN == [lat |-> 0, lng |-> 0, nan |-> TRUE]
CampusPoint == Geo(CAMPUS_LAT, CAMPUS_LNG)
GeoInputs == { CampusPoint,             \* the campus reference point
               Geo(22321800, 73362000), \* 1990.39 m north of it
               Geo(22321900, 73362000), \* 2001.51 m north of it
               Geo(0, 0),               \* 8299.46 km away
               GeoNaN }

\* A double: not-a-number, or a length in centimetres
Float(cm) == [nan |-> FALSE, cm |-> cm]
NaN == [nan |-> TRUE, cm |-> 0]
\* IEEE-754 comparisons: every comparison with NaN is false
FloatLeqMetres(a, metres) == ~a.nan /\ a.cm <= metres * 100
FloatGtMetres(a, metres) == ~a.nan /\ a.cm > metres * 100

\* The haversine formula with R = 6371e3, evaluated in binary64 at the
\* coordinates of GeoInputs against the campus point; the results are
\* 0.0, 1990.389186937703, 2001.5086796021333 and 8299462.06943513 m,
\* kept here in centimetres rounded away from the radius.
calculateDistance(p, lat2, lng2) ==
    IF p.nan THEN NaN
    ELSE IF p.lat = lat2 /\ p.lng = lng2 THEN Float(0)
    ELSE IF p.lat = 22321800 /\ p.lng = 73362000 THEN Float(199038)
    ELSE IF p.lat = 22321900 /\ p.lng = 73362000 THEN Float(200151)
    ELSE Float(829946207)

\* the radius taken for kilometres
isWithinCampus_radiusInKm(p) ==
    FloatLeqMetres(calculateDistance(p, CAMPUS_LAT, CAMPUS_LNG), CAMPUS_RADIUS \div 1000)
\* the campus point passed for both ends
isWithinCampus_sameEnds(p) ==
    FloatLeqMetres(calculateDistance(CampusPoint, CAMPUS_LAT, CAMPUS_LNG), CAMPUS_RADIUS)
\* server: distance <= CAMPUS_BOUNDARY.radius
isWithinCampus(p) ==
    FloatLeqMetres(calculateDistance(p, CAMPUS_LAT, CAMPUS_LNG), CAMPUS_RADIUS)

\* mock: if (distance > maxDistance) throw
mockOutsideCampus(p) ==
    FloatGtMetres(calculateDistance(p, CAMPUS_LAT, CAMPUS_LNG), CAMPUS_RADIUS)

(***************************************************************************)
(* Token codec (server)                                                    *)
(***************************************************************************)
\* `${subjectId}:${Date.now()}`
MakeSessionId(subjectId, ms) == subjectId \o <<Colon, Num(ms)>>

\* generateQRToken: t1 and t2 are the two reads of Date.now()
generateQRToken(sessionId, scanType, t1, t2) ==
    LET payload == [sessionId |-> sessionId, scanType |-> scanType,
                    timestamp |-> t1, expiry |-> t2 + QR_VALIDITY]
        token == JsonStringify(payload)
    IN [token |-> token, signature |-> <<HmacHex(JWT_SECRET, token)>>]

\* `${token}:${signature}`
Wire(token, signature) == token \o <<Colon>> \o signature

\* what verifyQRToken returns for a token it does not accept
VerifyFalse == [ok |-> FALSE, payload |-> JsNull]

\* the signature compared with nothing
verifyQRToken_noSignature(token, signature, nowMs) ==
    LET payload == JsonParse(token)
    IN IF payload.kind = "object" /\ payload.has /\ payload.expiry > nowMs
       THEN [ok |-> TRUE, payload |-> payload]
       ELSE VerifyFalse

\* verifyQRToken: the payload, or false
verifyQRToken(token, signature, nowMs) ==
    LET expectedSignature == <<HmacHex(JWT_SECRET, token)>>
    IN IF signature # expectedSignature THEN VerifyFalse
       ELSE LET payload == JsonParse(token)
            IN IF payload.kind = "error" THEN VerifyFalse  \* SyntaxError caught
               ELSE IF payload.kind = "null" THEN VerifyFalse \* TypeError caught
               ELSE IF payload.has /\ payload.expiry > nowMs
                    THEN [ok |-> TRUE, payload |-> payload]
                    ELSE VerifyFalse    \* undefined > now is false

(***************************************************************************)
(* Records                                                                 *)
(***************************************************************************)
\* an optional property of an object: absent, or present with a value
Absent == [set |-> FALSE, v |-> 0]
Present(v) == [set |-> TRUE, v |-> v]

STU001 == Str("STU001")
STU002 == Str("STU002")
FAC001 == Str("FAC001")
FAC002 == Str("FAC002")
SUB001 == Str("SUB001")
SUB002 == Str("SUB002")
Students == {STU001, STU002}
Faculty == {FAC001, FAC002}
\* the decoded login token of an authenticated caller: { id, role }
User(id) == [id |-> id, role |-> IF id \in Students THEN "student" ELSE "faculty"]
SubjectIds == {SUB001, SUB002}
Dates == {"2024-01-15"}
\* startTime as the caller gives it: left out, or a time of its choosing
StartTimes == {Absent, Present(StartMillis + DAY_MILLIS)}

\* the offsets at which the clock is observed
ClockValues ==
    { StartMillis + k * QR_VALIDITY + j :
        k \in 0..MaxPeriods, j \in 0..MaxJitter }

\* the attendance object a scan starts from when none is stored
NewAttendance(studentId, sessionId, subjectId) ==
    [id |-> studentId \o <<Colon>> \o sessionId,
     sessionId |-> sessionId,
     studentId |-> studentId,
     subjectId |-> subjectId,
     inScanTs |-> Absent, inScanLocation |-> Absent,
     outScanTs |-> Absent, outScanLocation |-> Absent]

\* the timestamp set without the location
RecordScan_timestampOnly(attendance, scanType, timestamp, location) ==
    IF scanType = Str("IN")
    THEN [attendance EXCEPT !.inScanTs = Present(timestamp)]
    ELSE [attendance EXCEPT !.outScanTs = Present(timestamp)]

\* if (scanType === 'IN') { in fields } else { out fields }
RecordScan(attendance, scanType, timestamp, location) ==
    IF scanType = Str("IN")
    THEN [attendance EXCEPT !.inScanTs = Present(timestamp),
                            !.inScanLocation = Present(location)]
    ELSE [attendance EXCEPT !.outScanTs = Present(timestamp),
                            !.outScanLocation = Present(location)]

\* !!(record.inScanTs && record.outScanTs)
isComplete(record) == record.inScanTs.set /\ record.outScanTs.set

(***************************************************************************)
(* Key-value store of the server                                           *)
(***************************************************************************)
SessionKey(sessionId) == <<Lit("session"), Colon>> \o sessionId
\* the key built with the session's id first
AttendanceKey_sessionFirst(userId, sessionId) ==
    <<Lit("attendance"), Colon>> \o sessionId \o <<Colon>> \o userId

\* the key built without the student's id
AttendanceKey_sessionOnly(userId, sessionId) ==
    <<Lit("attendance"), Colon>> \o sessionId

\* `attendance:${currentUser.id}:${sessionId}`
AttendanceKey(userId, sessionId) ==
    <<Lit("attendance"), Colon>> \o userId \o <<Colon>> \o sessionId
IsSessionKey(key) == Len(key) >= 2 /\ SubSeq(key, 1, 2) = <<Lit("session"), Colon>>
IsAttendanceKey(key) ==
    Len(key) >= 2 /\ SubSeq(key, 1, 2) = <<Lit("attendance"), Colon>>

KvHas(store, key) == key \in DOMAIN store
KvSet(store, key, value) ==
    [k \in DOMAIN store \cup {key} |-> IF k = key THEN value ELSE store[k]]

(***************************************************************************)
(* State                                                                   *)
(***************************************************************************)
VARIABLES
    backend,     \* which backend this run exercises: "server" or "mock"
    now,         \* Date.now()
    kv,          \* server: the key-value store
    sessions,    \* MockDatabase.sessions
    attendance,  \* MockDatabase.attendance
    issued,      \* the {token, signature} pairs handed out so far
    last,        \* the last request and its response
    pending      \* server: the scan requests in flight, with their locals
vars == <<backend, now, kv, sessions, attendance, issued, last, pending>>

Request(op, caller, sessionId, qrData, geo) ==
    [op |-> op, caller |-> caller, sessionId |-> sessionId,
     qrData |-> qrData, geo |-> geo, at |-> now]
NoRequest == [op |-> "none", caller |-> Undefined, sessionId |-> Undefined,
              qrData |-> Undefined, geo |-> GeoNaN, at |-> 0]
\* a scan request as the handler holds it once qrData is destructured
ParsedRequest(caller, token, signature, geo) ==
    [op |-> "scan", caller |-> caller, sessionId |-> Undefined,
     qrData |-> [token |-> token, signature |-> signature], geo |-> geo,
     at |-> now]
\* a response: HTTP status and error text (the mock: 200, or 0 and the
\* message of the Error thrown), the wire string or the record returned;
\* attendance and session are filled by getSessionAttendance only
Response(status, error, message, wire, record) ==
    [status |-> status, error |-> error, message |-> message, wire |-> wire,
     record |-> record, attendance |-> {}, session |-> Absent]
Failure(status, error) == Response(status, error, Undefined, Undefined, Absent)
\* a record as getSessionAttendance returns it: { ...record, isComplete }
\* (studentName and rollNo are those of the student the record names)
Enriched(record) ==
    [record |-> record,
     isComplete |-> record.inScanTs.set /\ record.outScanTs.set]
\* the answer of getSessionAttendance: { session, attendance, ... }, the
\* stored session object and the list of enriched records
AttendanceResponse(session, records) ==
    [Response(200, "", Undefined, Undefined, Absent) EXCEPT
        !.attendance = records, !.session = Present(session)]
\* `${scanType} scan recorded successfully`
ScanMessage(scanType) == scanType \o Str(" scan recorded successfully")

EmptyMap == [k \in {} |-> Absent]

\* a request slot of the server: the handler's position ("idle", "read":
\* before kv.get(attendanceKey), "write": before kv.set, "done") and locals
Idle == [stage |-> "idle", req |-> NoRequest, key |-> Undefined,
         subjectId |-> Undefined, payload |-> JsNull, attendance |-> Absent,
         res |-> Failure(0, "")]

\* MockDatabase.createSampleSessions
SampleSessions(nowMs) ==
    LET yesterday == nowMs - DAY_MILLIS
        s1 == MakeSessionId(SUB001, yesterday)
        s2 == MakeSessionId(SUB002, nowMs)
    IN (s1 :> [id |-> s1, subjectId |-> SUB001, facultyId |-> FAC001,
               inGenerationTs |-> yesterday,
               outGenerationTs |-> Present(yesterday + TWO_HOURS),
               date |-> "yesterday", status |-> "completed"])
       @@
       (s2 :> [id |-> s2, subjectId |-> SUB002, facultyId |-> FAC001,
               inGenerationTs |-> nowMs,
               outGenerationTs |-> Absent,
               date |-> "today", status |-> "active"])

SampleAttendance(nowMs) ==
    LET yesterday == nowMs - DAY_MILLIS
        s1 == MakeSessionId(SUB001, yesterday)
        r1 == [NewAttendance(STU001, s1, SUB001) EXCEPT
                 !.inScanTs = Present(yesterday),
                 !.outScanTs = Present(yesterday + TWO_HOURS),
                 !.inScanLocation = Present(CampusPoint),
                 !.outScanLocation = Present(CampusPoint)]
        r2 == [NewAttendance(STU002, s1, SUB001) EXCEPT
                 !.inScanTs = Present(yesterday),
                 !.inScanLocation = Present(CampusPoint)]
    IN (r1.id :> r1) @@ (r2.id :> r2)

Init ==
    /\ backend \in {"server", "mock"}
    /\ now = StartMillis
    /\ kv = EmptyMap
    /\ sessions = SampleSessions(StartMillis)
    /\ attendance = SampleAttendance(StartMillis)
    /\ issued = {}
    /\ last = [req |-> NoRequest, res |-> Failure(0, "")]
    /\ pending = [i \in 1..MaxInflight |-> Idle]

\* time passes
Tick ==
    /\ \E t \in ClockValues : t > now /\ now' = t
    /\ UNCHANGED <<backend, kv, sessions, attendance, issued, last, pending>>

(***************************************************************************)
(* Server routes                                                           *)
(***************************************************************************)
ServerSessionKeys == {k \in DOMAIN kv : IsSessionKey(k)}
ServerAttendanceKeys == {k \in DOMAIN kv : IsAttendanceKey(k)}

\* POST /faculty/session; d is the clock's advance between the two reads of
\* Date.now() in generateQRToken
PostFacultySession(user, subjectId, date, startTime, d) ==
    /\ backend = "server"
    /\ now + d \in ClockValues
    /\ LET sessionId == MakeSessionId(subjectId, now)
           inQRData == generateQRToken(sessionId, Str("IN"), now, now + d)
           session == [id |-> sessionId,
                       subjectId |-> subjectId,
                       facultyId |-> user.id,
                       date |-> date,
                       startTime |-> IF startTime.set THEN startTime.v ELSE now + d,
                       inGenerationTs |-> now + d,
                       inQrToken |-> inQRData.token,
                       inQrSignature |-> inQRData.signature,
                       outGenerationTs |-> Absent,
                       outQrToken |-> Absent,
                       outQrSignature |-> Absent,
                       status |-> "active"]
           req == Request("create", user.id, Undefined, Undefined, GeoNaN)
       IN IF user.role # "faculty"
          THEN /\ d = 0
               /\ last' = [req |-> req, res |-> Failure(403, "Faculty access required")]
               /\ UNCHANGED <<now, kv, issued>>
          ELSE /\ \/ Cardinality(ServerSessionKeys) < MaxSessions
                  \/ KvHas(kv, SessionKey(sessionId))
               /\ Cardinality(issued \cup {inQRData}) <= MaxTokens
               /\ kv' = KvSet(kv, SessionKey(sessionId), session)
               /\ now' = now + d
               /\ issued' = issued \cup {inQRData}
               /\ last' = [req |-> [req EXCEPT !.sessionId = sessionId],
                           res |-> Response(200, "", Undefined,
                                     Wire(inQRData.token, inQRData.signature), Absent)]
    /\ UNCHANGED <<backend, sessions, attendance, pending>>

\* generate-out for any faculty member, whoever owns the session
PostGenerateOut_anyFaculty(user, sessionId, d) ==
    /\ backend = "server"
    /\ now + d \in ClockValues
    /\ LET req == Request("out", user.id, sessionId, Undefined, GeoNaN)
           key == SessionKey(sessionId)
       IN IF user.role # "faculty"
          THEN /\ d = 0
               /\ last' = [req |-> req, res |-> Failure(403, "Faculty access required")]
               /\ UNCHANGED <<now, kv, issued>>
          ELSE IF ~KvHas(kv, key)
          THEN /\ d = 0
               /\ last' = [req |-> req, res |-> Failure(404, "Session not found")]
               /\ UNCHANGED <<now, kv, issued>>
          ELSE LET session == kv[key]
                   outQRData == generateQRToken(sessionId, Str("OUT"), now, now + d)
               IN /\ Cardinality(issued \cup {outQRData}) <= MaxTokens
                  /\ kv' = KvSet(kv, key,
                             [session EXCEPT
                                !.outGenerationTs = Present(now + d),
                                !.outQrToken = Present(outQRData.token),
                                !.outQrSignature = Present(outQRData.signature)])
                  /\ now' = now + d
                  /\ issued' = issued \cup {outQRData}
                  /\ last' = [req |-> req,
                              res |-> Response(200, "", Undefined,
                                        Wire(outQRData.token, outQRData.signature),
                                        Absent)]
    /\ UNCHANGED <<backend, sessions, attendance, pending>>

\* POST /faculty/session/:id/generate-out
PostGenerateOut(user, sessionId, d) ==
    /\ backend = "server"
    /\ now + d \in ClockValues
    /\ LET req == Request("out", user.id, sessionId, Undefined, GeoNaN)
           key == SessionKey(sessionId)
       IN IF user.role # "faculty"
          THEN /\ d = 0
               /\ last' = [req |-> req, res |-> Failure(403, "Faculty access required")]
               /\ UNCHANGED <<now, kv, issued>>
          ELSE IF ~KvHas(kv, key) \/ kv[key].facultyId # user.id
          THEN /\ d = 0
               /\ last' = [req |-> req, res |-> Failure(404, "Session not found")]
               /\ UNCHANGED <<now, kv, issued>>
          ELSE LET session == kv[key]
                   outQRData == generateQRToken(sessionId, Str("OUT"), now, now + d)
               IN /\ Cardinality(issued \cup {outQRData}) <= MaxTokens
                  /\ kv' = KvSet(kv, key,
                             [session EXCEPT
                                !.outGenerationTs = Present(now + d),
                                !.outQrToken = Present(outQRData.token),
                                !.outQrSignature = Present(outQRData.signature)])
                  /\ now' = now + d
                  /\ issued' = issued \cup {outQRData}
                  /\ last' = [req |-> req,
                              res |-> Response(200, "", Undefined,
                                        Wire(outQRData.token, outQRData.signature),
                                        Absent)]
    /\ UNCHANGED <<backend, sessions, attendance, pending>>

\* GET /session/:id/attendance: records of the session whose student is
\* stored (initializeData stores student:STU001 and student:STU002)
GetSessionAttendance(user, sessionId) ==
    /\ backend = "server"
    /\ LET req == Request("attendance", user.id, sessionId, Undefined, GeoNaN)
           key == SessionKey(sessionId)
           sessionAttendance ==
               {kv[k] : k \in {x \in ServerAttendanceKeys :
                                  kv[x].sessionId = sessionId}}
           res == IF ~KvHas(kv, key)
                  THEN Failure(404, "Session not found")
                  ELSE IF user.role = "faculty" /\ kv[key].facultyId # user.id
                  THEN Failure(403, "Unauthorized")
                  ELSE AttendanceResponse(kv[key],
                         {Enriched(r) : r \in {x \in sessionAttendance :
                                                  x.studentId \in Students}})
       IN last' = [req |-> req, res |-> res]
    /\ UNCHANGED <<backend, now, kv, sessions, attendance, issued, pending>>

\* POST /attendance/scan, from the destructured [token, signature] on
\* (lines 851-890): the response and the store it leaves
ServerScanParsed(store, user, token, signature, geo, nowMs) ==
    LET v == verifyQRToken(token, signature, nowMs)
        sessionId == v.payload.sessionId
        scanType == v.payload.scanType
    IN IF ~v.ok
       THEN [res |-> Failure(400, "Invalid or expired QR code"), kv |-> store]
       ELSE IF ~KvHas(store, SessionKey(sessionId))
       THEN [res |-> Failure(404, "Session not found"), kv |-> store]
       ELSE LET session == store[SessionKey(sessionId)]
                attendanceKey == AttendanceKey(user.id, sessionId)
                existing == IF KvHas(store, attendanceKey)
                            THEN store[attendanceKey]
                            ELSE NewAttendance(user.id, sessionId, session.subjectId)
                record == RecordScan(existing, scanType, nowMs, geo)
            IN [res |-> Response(200, "", ScanMessage(scanType), Undefined,
                                 Present(record)),
                kv |-> KvSet(store, attendanceKey, record)]

\* the token verified before the position
ServerScan_tokenFirst(store, user, qrData, geo, nowMs) ==
    IF user.role # "student"
    THEN [res |-> Failure(403, "Student access required"), kv |-> store]
    ELSE IF qrData = Undefined
    THEN [res |-> Failure(500, "Failed to record attendance"), kv |-> store]
    ELSE LET parts == DestructureTwo(SplitColon(qrData))
             out == ServerScanParsed(store, user, parts.token, parts.signature,
                                     geo, nowMs)
         IN IF out.res.status = 400 THEN out
            ELSE IF ~isWithinCampus(geo)
            THEN [res |-> Failure(400, "Scan location is outside campus boundary"),
                  kv |-> store]
            ELSE out

\* POST /attendance/scan, the whole handler
ServerScan(store, user, qrData, geo, nowMs) ==
    IF user.role # "student"
    THEN [res |-> Failure(403, "Student access required"), kv |-> store]
    ELSE IF ~isWithinCampus(geo)
    THEN [res |-> Failure(400, "Scan location is outside campus boundary"),
          kv |-> store]
    ELSE IF qrData = Undefined      \* undefined.split: TypeError, caught
    THEN [res |-> Failure(500, "Failed to record attendance"), kv |-> store]
    ELSE LET parts == DestructureTwo(SplitColon(qrData))
         IN ServerScanParsed(store, user, parts.token, parts.signature, geo, nowMs)

\* the scan accepted from a caller of any role
ServerScanChecked_anyRole(store, user, token, signature, geo, nowMs) ==
    IF ~isWithinCampus(geo)
    THEN [res |-> Failure(400, "Scan location is outside campus boundary"),
          kv |-> store]
    ELSE ServerScanParsed(store, user, token, signature, geo, nowMs)

\* POST /attendance/scan with [token, signature] given (lines 835-848 and
\* 851-890)
ServerScanChecked(store, user, token, signature, geo, nowMs) ==
    IF user.role # "student"
    THEN [res |-> Failure(403, "Student access required"), kv |-> store]
    ELSE IF ~isWithinCampus(geo)
    THEN [res |-> Failure(400, "Scan location is outside campus boundary"),
          kv |-> store]
    ELSE ServerScanParsed(store, user, token, signature, geo, nowMs)

PostAttendanceScanParsed(user, token, signature, geo) ==
    /\ backend = "server"
    /\ LET out == ServerScanChecked(kv, user, token, signature, geo, now)
       IN /\ kv' = out.kv
          /\ last' = [req |-> ParsedRequest(user.id, token, signature, geo),
                      res |-> out.res]
    /\ UNCHANGED <<backend, now, sessions, attendance, issued, pending>>

\* POST /attendance/scan step by step, one step per await that touches the
\* store.  First step: the checks and kv.get of the session (lines 836-862)
ScanBegin(i, user, token, signature, geo) ==
    /\ backend = "server"
    /\ pending[i].stage = "idle"
    /\ LET req == ParsedRequest(user.id, token, signature, geo)
           v == verifyQRToken(token, signature, now)
           sessionId == v.payload.sessionId
           fail(res) == /\ pending' = [pending EXCEPT ![i] =
                                          [Idle EXCEPT !.stage = "done",
                                                       !.req = req, !.res = res]]
                        /\ last' = [req |-> req, res |-> res]
       IN IF user.role # "student"
          THEN fail(Failure(403, "Student access required"))
          ELSE IF ~isWithinCampus(geo)
          THEN fail(Failure(400, "Scan location is outside campus boundary"))
          ELSE IF ~v.ok
          THEN fail(Failure(400, "Invalid or expired QR code"))
          ELSE IF ~KvHas(kv, SessionKey(sessionId))
          THEN fail(Failure(404, "Session not found"))
          ELSE /\ pending' = [pending EXCEPT ![i] =
                                [Idle EXCEPT
                                   !.stage = "read", !.req = req,
                                   !.key = AttendanceKey(user.id, sessionId),
                                   !.subjectId = kv[SessionKey(sessionId)].subjectId,
                                   !.payload = v.payload]]
               /\ UNCHANGED last
    /\ UNCHANGED <<backend, now, kv, sessions, attendance, issued>>

\* second step: kv.get(attendanceKey) || { ... }, then the fields of the
\* scan are set on the object read (lines 864-882)
ScanRead(i) ==
    /\ backend = "server"
    /\ pending[i].stage = "read"
    /\ LET p == pending[i]
           existing == IF KvHas(kv, p.key) THEN kv[p.key]
                       ELSE NewAttendance(p.req.caller, p.payload.sessionId,
                                          p.subjectId)
           record == RecordScan(existing, p.payload.scanType, now, p.req.geo)
       IN pending' = [pending EXCEPT ![i].stage = "write",
                                     ![i].attendance = Present(record)]
    /\ UNCHANGED <<backend, now, kv, sessions, attendance, issued, last>>

\* third step: kv.set(attendanceKey, attendance) and the response (lines
\* 884-890)
ScanWrite(i) ==
    /\ backend = "server"
    /\ pending[i].stage = "write"
    /\ LET p == pending[i]
           res == Response(200, "", ScanMessage(p.payload.scanType), Undefined,
                           p.attendance)
       IN /\ kv' = KvSet(kv, p.key, p.attendance.v)
          /\ pending' = [pending EXCEPT ![i].stage = "done", ![i].res = res]
          /\ last' = [req |-> p.req, res |-> res]
    /\ UNCHANGED <<backend, now, sessions, attendance, issued>>

PostAttendanceScan(user, qrData, geo) ==
    /\ backend = "server"
    /\ LET out == ServerScan(kv, user, qrData, geo, now)
       IN /\ kv' = out.kv
          /\ last' = [req |-> Request("scan", user.id, Undefined, qrData, geo),
                      res |-> out.res]
    /\ UNCHANGED <<backend, now, sessions, attendance, issued, pending>>

(***************************************************************************)
(* MockDatabase                                                            *)
(***************************************************************************)
MapHas(map, key) == key \in DOMAIN map
MapSet(map, key, value) ==
    [k \in DOMAIN map \cup {key} |-> IF k = key THEN value ELSE map[k]]

\* 'mock-signature-' + Date.now()
MockSignature(ms) == <<Lit("mock-signature-"), Num(ms)>>
\* the qrPayload / qrToken / signature block of createSession, generateOutQR
MockQRData(sessionId, scanType, t1, t2) ==
    [token |-> JsonStringify([sessionId |-> sessionId, scanType |-> scanType,
                              timestamp |-> t1, expiry |-> t2 + QR_VALIDITY]),
     signature |-> MockSignature(t2)]

\* the sessions created since start-up (the two samples are always there)
MockCreated == DOMAIN sessions \ DOMAIN SampleSessions(StartMillis)

\* MockDatabase.createSession
createSession(facultyId, subjectId, date, startTime, d) ==
    /\ backend = "mock"
    /\ now + d \in ClockValues
    /\ LET sessionId == MakeSessionId(subjectId, now)
           inGenerationTs == IF startTime.set THEN startTime.v ELSE now
           session == [id |-> sessionId, subjectId |-> subjectId,
                       facultyId |-> facultyId, date |-> date,
                       inGenerationTs |-> inGenerationTs,
                       outGenerationTs |-> Absent,
                       status |-> "active"]
           qr == MockQRData(sessionId, Str("IN"), now, now + d)
       IN /\ \/ Cardinality(MockCreated) < MaxSessions
             \/ MapHas(sessions, sessionId)
          /\ Cardinality(issued \cup {qr}) <= MaxTokens
          /\ sessions' = MapSet(sessions, sessionId, session)
          /\ now' = now + d
          /\ issued' = issued \cup {qr}
          /\ last' = [req |-> Request("create", facultyId, sessionId, Undefined, GeoNaN),
                      res |-> Response(200, "", Undefined,
                                       Wire(qr.token, qr.signature), Absent)]
    /\ UNCHANGED <<backend, kv, attendance, pending>>

\* MockDatabase.generateOutQR
generateOutQR(sessionId, d) ==
    /\ backend = "mock"
    /\ now + d \in ClockValues
    /\ LET req == Request("out", Undefined, sessionId, Undefined, GeoNaN)
       IN IF ~MapHas(sessions, sessionId)
          THEN /\ d = 0
               /\ last' = [req |-> req, res |-> Failure(0, "Session not found")]
               /\ UNCHANGED <<now, sessions, issued>>
          ELSE LET session == sessions[sessionId]
                   qr == MockQRData(sessionId, Str("OUT"), now, now + d)
               IN /\ Cardinality(issued \cup {qr}) <= MaxTokens
                  /\ sessions' = MapSet(sessions, sessionId,
                        [session EXCEPT !.outGenerationTs = Present(now + d)])
                  /\ now' = now + d
                  /\ issued' = issued \cup {qr}
                  /\ last' = [req |-> req,
                              res |-> Response(200, "", Undefined,
                                               Wire(qr.token, qr.signature), Absent)]
    /\ UNCHANGED <<backend, kv, attendance, pending>>

\* MockDatabase.getSessionAttendance
getSessionAttendance(sessionId) ==
    /\ backend = "mock"
    /\ LET req == Request("attendance", Undefined, sessionId, Undefined, GeoNaN)
           sessionAttendance ==
               {attendance[k] : k \in {x \in DOMAIN attendance :
                                         attendance[x].sessionId = sessionId}}
           res == IF ~MapHas(sessions, sessionId)
                  THEN Failure(0, "Session not found")
                  ELSE AttendanceResponse(sessions[sessionId],
                         {Enriched(r) : r \in sessionAttendance})
       IN last' = [req |-> req, res |-> res]
    /\ UNCHANGED <<backend, now, kv, sessions, attendance, issued, pending>>

\* MockDatabase.scanAttendance from the parsed token on (lines 340-385):
\* the result and the attendance map it leaves
MockScanParsed(map, studentId, token, geo, nowMs) ==
    LET qrPayload == JsonParse(token)
        sessionId == qrPayload.sessionId
        scanType == qrPayload.scanType
    IN IF qrPayload.kind = "error"
       THEN [res |-> Failure(0, "Invalid QR code format"), attendance |-> map]
       ELSE IF qrPayload.kind = "null"      \* null.expiry
       THEN [res |-> Failure(0, "TypeError"), attendance |-> map]
       ELSE IF qrPayload.has /\ qrPayload.expiry < nowMs
       THEN [res |-> Failure(0, "QR code has expired"), attendance |-> map]
       ELSE IF ~MapHas(sessions, sessionId)
       THEN [res |-> Failure(0, "Session not found"), attendance |-> map]
       ELSE LET session == sessions[sessionId]
                attendanceKey == studentId \o <<Colon>> \o sessionId
                existing == IF MapHas(map, attendanceKey)
                            THEN map[attendanceKey]
                            ELSE NewAttendance(studentId, sessionId, session.subjectId)
                record == RecordScan(existing, scanType, nowMs, geo)
            IN [res |-> Response(200, "", ScanMessage(scanType), Undefined,
                                 Present(record)),
                attendance |-> MapSet(map, attendanceKey, record)]

\* MockDatabase.scanAttendance, the whole method
MockScan(map, studentId, qrData, geo, nowMs) ==
    IF mockOutsideCampus(geo)
    THEN [res |-> Failure(0, "Scan location is outside campus boundary"),
          attendance |-> map]
    ELSE LET parts == DestructureTwo(SplitColon(qrData))
         IN MockScanParsed(map, studentId, parts.token, geo, nowMs)

\* MockDatabase.scanAttendance with [token, signature] given (lines 327-336
\* and 340-385)
MockScanChecked(map, studentId, token, geo, nowMs) ==
    IF mockOutsideCampus(geo)
    THEN [res |-> Failure(0, "Scan location is outside campus boundary"),
          attendance |-> map]
    ELSE MockScanParsed(map, studentId, token, geo, nowMs)

scanAttendanceParsed(studentId, token, signature, geo) ==
    /\ backend = "mock"
    /\ LET out == MockScanChecked(attendance, studentId, token, geo, now)
       IN /\ attendance' = out.attendance
          /\ last' = [req |-> ParsedRequest(studentId, token, signature, geo),
                      res |-> out.res]
    /\ UNCHANGED <<backend, now, kv, sessions, issued, pending>>

scanAttendance(studentId, qrData, geo) ==
    /\ backend = "mock"
    /\ LET out == MockScan(attendance, studentId, qrData, geo, now)
       IN /\ attendance' = out.attendance
          /\ last' = [req |-> Request("scan", studentId, Undefined, qrData, geo),
                      res |-> out.res]
    /\ UNCHANGED <<backend, now, kv, sessions, issued, pending>>

(***************************************************************************)
(* What callers send                                                       *)
(***************************************************************************)
\* a token whose expiry was pushed back after issuance
ExtendExpiry(token) ==
    LET p == JsonParse(token)
    IN JsonStringify([sessionId |-> p.sessionId, scanType |-> p.scanType,
                      timestamp |-> p.timestamp,
                      expiry |-> p.expiry + QR_VALIDITY])
\* a token re-targeted at another subject's session after issuance
Retarget(token) ==
    LET p == JsonParse(token)
    IN JsonStringify([sessionId |-> MakeSessionId(SUB002, StartMillis),
                      scanType |-> p.scanType,
                      timestamp |-> p.timestamp, expiry |-> p.expiry])
GarbageSignature == Str("garbage")
\* a session id no backend holds
UnknownSessionId == MakeSessionId(Str("SUB999"), 0)
\* a wire string put together by the caller: a well-formed payload naming
\* no stored session, far from expiry, with a signature of its own making
HomeMadeWire ==
    Wire(JsonStringify([sessionId |-> UnknownSessionId, scanType |-> Str("IN"),
                        timestamp |-> StartMillis,
                        expiry |-> StartMillis + (MaxPeriods + 2) * QR_VALIDITY]),
         GarbageSignature)

\* altered copies of the issued {token, signature} pairs
Unsigned == {[token |-> q.token, signature |-> GarbageSignature] : q \in issued}
Extended ==
    {[token |-> ExtendExpiry(q.token), signature |-> q.signature] : q \in issued}
Retargeted ==
    {[token |-> Retarget(q.token), signature |-> q.signature] : q \in issued}

\* the strings a caller can submit as qrData: what was handed out, altered
\* copies of it, and text that is no token
QrInputs ==
    {Wire(q.token, q.signature) : q \in issued \cup Unsigned}
    \cup {q.token : q \in issued}                    \* the signature left off
    \cup {<<LBrace, RBrace>>, Str("null"), Str("not-a-qr-code"), HomeMadeWire}

\* the mock is called with the coordinates of a position fix, which are numbers
MockGeoInputs == GeoInputs \ {GeoNaN}

SessionIdInputs ==
    {kv[k].id : k \in ServerSessionKeys} \cup DOMAIN sessions
    \cup {UnknownSessionId}

\* the requests of one run: the callers, subjects, start times and clock
\* advances that session requests range over
ServerSessionStep(callers, subjects, starts, skews, ids) ==
    \/ \E u \in callers, subjectId \in subjects, date \in Dates,
          startTime \in starts, d \in skews :
            PostFacultySession(User(u), subjectId, date, startTime, d)
    \/ \E u \in callers, sessionId \in ids, d \in skews :
            PostGenerateOut(User(u), sessionId, d)

MockSessionStep(callers, subjects, starts, skews, ids) ==
    \/ \E f \in callers, subjectId \in subjects, date \in Dates,
          startTime \in starts, d \in skews :
            createSession(f, subjectId, date, startTime, d)
    \/ \E sessionId \in ids, d \in skews :
            generateOutQR(sessionId, d)

ScanStep ==
    \/ \E qrData \in QrInputs \cup {Undefined}, geo \in GeoInputs :
            PostAttendanceScan(User(STU001), qrData, geo)
    \/ \E q \in issued :
            PostAttendanceScan(User(FAC001), Wire(q.token, q.signature), CampusPoint)
    \/ \E qrData \in QrInputs, geo \in MockGeoInputs :
            scanAttendance(STU001, qrData, geo)

\* The whole program: sessions of one subject by its faculty member, and
\* scan requests with every qrData and position
Next ==
    \/ Tick
    \/ ServerSessionStep({FAC001, STU001}, {SUB001}, {Absent}, {0}, SessionIdInputs)
    \/ MockSessionStep({FAC001}, {SUB001}, {Absent}, {0}, SessionIdInputs)
    \/ ScanStep
Spec == Init /\ [][Next]_vars

\* The scan handlers from the point where qrData has been destructured
\* into [token, signature], given the pair that was encoded into the wire
\* string (or an altered copy of it): the token codec, the checks and the
\* record update without the split on ':'.  Under Spec no scan is ever
\* accepted, because the split cuts every issued wire string inside its
\* payload; this specification is where the steps that follow a
\* successful verification are exercised.
TokenPairs == issued \cup Unsigned \cup Extended \cup Retargeted
ParsedScanStep ==
    \/ \E q \in TokenPairs, geo \in {CampusPoint, Geo(0, 0)} :
            PostAttendanceScanParsed(User(STU001), q.token, q.signature, geo)
    \/ \E q \in issued \cup Unsigned, geo \in {CampusPoint, Geo(0, 0)} :
            scanAttendanceParsed(STU001, q.token, q.signature, geo)
NextHandler ==
    \/ Tick
    \/ ServerSessionStep({FAC001}, {SUB001}, {Absent}, {0},
                         {kv[k].id : k \in ServerSessionKeys})
    \/ MockSessionStep({FAC001}, {SUB001}, {Absent}, {0}, MockCreated)
    \/ ParsedScanStep
SpecHandler == Init /\ [][NextHandler]_vars

\* The server's scan handler step by step: up to MaxInflight requests are
\* in flight and their store accesses interleave
NextRace ==
    \/ Tick
    \/ ServerSessionStep({FAC001}, {SUB001}, {Absent}, {0},
                         {kv[k].id : k \in ServerSessionKeys})
    \/ \E i \in 1..MaxInflight, q \in issued, geo \in {CampusPoint, Geo(0, 0)} :
            ScanBegin(i, User(STU001), q.token, q.signature, geo)
    \/ \E i \in 1..MaxInflight : ScanRead(i)
    \/ \E i \in 1..MaxInflight : ScanWrite(i)
InitRace == Init /\ backend = "server"
SpecRace == InitRace /\ [][NextRace]_vars

\* The session routes with every caller and start time, and the
\* attendance reads
ReadStep ==
    \/ \E u \in {FAC001, FAC002, STU001}, sessionId \in SessionIdInputs :
            GetSessionAttendance(User(u), sessionId)
    \/ \E sessionId \in SessionIdInputs : getSessionAttendance(sessionId)
NextSession ==
    \/ Tick
    \/ ServerSessionStep({FAC001, FAC002, STU001}, {SUB001}, StartTimes,
                         0..MaxSkew, SessionIdInputs)
    \/ MockSessionStep({FAC001, FAC002}, {SUB001}, StartTimes,
                       0..MaxSkew, SessionIdInputs)
    \/ ReadStep
SpecSession == Init /\ [][NextSession]_vars

\* The server's state-changing routes called by students and by faculty
\* members, the scan handler from [token, signature] on
CallerScanStep ==
    \E u \in {STU001, STU002, FAC001}, q \in issued :
        PostAttendanceScanParsed(User(u), q.token, q.signature, CampusPoint)
NextCaller ==
    \/ Tick
    \/ ServerSessionStep({FAC001, STU001}, {SUB001}, {Absent}, {0},
                         {kv[k].id : k \in ServerSessionKeys})
    \/ CallerScanStep
SpecCaller == InitRace /\ [][NextCaller]_vars

\* date left out of the request body
DateLeftOut == ""

\* createSession with subjectId or date left out of the request, and
\* generate-out for the sessions stored
CreateStep ==
    \/ \E subjectId \in {SUB001, Undefined}, date \in Dates \cup {DateLeftOut} :
            PostFacultySession(User(FAC001), subjectId, date, Absent, 0)
    \/ \E subjectId \in {SUB001, Undefined}, date \in Dates \cup {DateLeftOut} :
            createSession(FAC001, subjectId, date, Absent, 0)
    \/ \E sessionId \in SessionIdInputs : PostGenerateOut(User(FAC001), sessionId, 0)
    \/ \E sessionId \in SessionIdInputs : generateOutQR(sessionId, 0)
NextCreate ==
    \/ Tick
    \/ CreateStep
SpecCreate == Init /\ [][NextCreate]_vars

(***************************************************************************)
(* Attendance summary                                                      *)
(***************************************************************************)
\* text.startsWith(prefix)
StartsWith(text, prefix) ==
    Len(text) >= Len(prefix) /\ SubSeq(text, 1, Len(prefix)) = prefix
\* the keys kv.getByPrefix(prefix) returns the values of
KvKeysByPrefix(store, prefix) == {k \in DOMAIN store : StartsWith(k, prefix)}

\* totalSessions > 0 ? Math.round((attendedSessions / totalSessions) * 100) : 0
\* (Math.round rounds halves up; for totals below 40 the binary64 product
\* is on the same side of every half as the exact quotient)
Percentage(attendedSessions, totalSessions) ==
    IF totalSessions > 0
    THEN (200 * attendedSessions + totalSessions) \div (2 * totalSessions)
    ELSE 0

SUB003 == Str("SUB003")
\* the subjects initializeData stores on the server, and those of the mock
ServerSubjects == {SUB001, SUB002, SUB003}
MockSubjects == {SUB001, SUB002, SUB003, Str("SUB004"), Str("SUB005")}

SubjectSummary(subject, totalSessions, attendedSessions) ==
    [subject |-> subject, totalSessions |-> totalSessions,
     attendedSessions |-> attendedSessions,
     percentage |-> Percentage(attendedSessions, totalSessions)]

\* the loop body of the server profile route for one subject
ServerSubjectAttendance(store, studentId, subject) ==
    LET attendanceRecords ==
            KvKeysByPrefix(store, <<Lit("attendance"), Colon>> \o studentId \o <<Colon>>)
        subjectSessions ==
            KvKeysByPrefix(store, <<Lit("session"), Colon>> \o subject \o <<Colon>>)
        subjectAttendanceRecords ==
            {k \in attendanceRecords : StartsWith(store[k].sessionId, subject)}
    IN SubjectSummary(subject, Cardinality(subjectSessions),
           Cardinality({k \in subjectAttendanceRecords :
                           store[k].inScanTs.set /\ store[k].outScanTs.set}))

\* the answer of getStudentProfile: { profile, attendance }, the list of
\* the subjects' summaries
ProfileResponse(subjects) ==
    [Response(200, "", Undefined, Undefined, Absent) EXCEPT !.attendance = subjects]

\* GET /student/:id/profile
GetStudentProfile(user, studentId) ==
    /\ backend = "server"
    /\ LET req == Request("profile", user.id, studentId, Undefined, GeoNaN)
           res == IF user.role # "student" \/ user.id # studentId
                  THEN Failure(403, "Unauthorized")
                  ELSE IF studentId \notin Students
                  THEN Failure(404, "Student not found")
                  ELSE ProfileResponse(
                         {ServerSubjectAttendance(kv, studentId, subject) :
                             subject \in ServerSubjects})
       IN last' = [req |-> req, res |-> res]
    /\ UNCHANGED <<backend, now, kv, sessions, attendance, issued, pending>>

\* the map callback of MockDatabase.getStudentProfile for one subject
MockSubjectAttendance(studentId, subject) ==
    LET subjectSessions == {k \in DOMAIN sessions : sessions[k].subjectId = subject}
        studentAttendanceRecords ==
            {k \in DOMAIN attendance : /\ attendance[k].studentId = studentId
                                        /\ attendance[k].subjectId = subject}
    IN SubjectSummary(subject, Cardinality(subjectSessions),
           Cardinality({k \in studentAttendanceRecords :
                           attendance[k].inScanTs.set /\ attendance[k].outScanTs.set}))

\* MockDatabase.getStudentProfile
getStudentProfile(studentId) ==
    /\ backend = "mock"
    /\ LET req == Request("profile", studentId, studentId, Undefined, GeoNaN)
           res == IF studentId \notin Students
                  THEN Failure(0, "Student not found")
                  ELSE ProfileResponse(
                         {MockSubjectAttendance(studentId, subject) :
                             subject \in MockSubjects})
       IN last' = [req |-> req, res |-> res]
    /\ UNCHANGED <<backend, now, kv, sessions, attendance, issued, pending>>

\* subject ids a request body may carry beside those of the stored
\* subjects: 'SUB001:lab' and 'SUB0011'
SUB001_lab == <<Lit("SUB001"), Colon, Lit("lab")>>
SUB0011 == <<Lit("SUB001"), Lit("1")>>

\* the session POST /faculty/session stores for FAC001 at a clock reading,
\* and the one MockDatabase.createSession stores
ServerSessionAt(subjectId, ms) ==
    LET sessionId == MakeSessionId(subjectId, ms)
        inQRData == generateQRToken(sessionId, Str("IN"), ms, ms)
    IN [id |-> sessionId, subjectId |-> subjectId, facultyId |-> FAC001,
        date |-> "2024-01-15", startTime |-> ms, inGenerationTs |-> ms,
        inQrToken |-> inQRData.token, inQrSignature |-> inQRData.signature,
        outGenerationTs |-> Absent, outQrToken |-> Absent,
        outQrSignature |-> Absent, status |-> "active"]
MockSessionAt(subjectId, ms) ==
    [id |-> MakeSessionId(subjectId, ms), subjectId |-> subjectId,
     facultyId |-> FAC001, date |-> "2024-01-15", inGenerationTs |-> ms,
     outGenerationTs |-> Absent, status |-> "active"]

\* the record accepted scans of STU001 leave for a session: after the IN
\* scan ("in"), or after the IN and the OUT scan ("both")
ScannedRecord(subjectId, ms, scans) ==
    LET fresh == NewAttendance(STU001, MakeSessionId(subjectId, ms), subjectId)
        afterIn == RecordScan(fresh, Str("IN"), ms, CampusPoint)
    IN IF scans = "in" THEN afterIn
       ELSE RecordScan(afterIn, Str("OUT"), ms, CampusPoint)

\* the sessions a store is drawn from: up to MaxSummarySessions of SUB001
\* and one of each other subject id
SummarySessions ==
    ({SUB001} \X {StartMillis + i : i \in 1..MaxSummarySessions})
    \cup ({SUB001_lab, SUB0011} \X {StartMillis})

\* the store after sessions S were created and STU001 scanned as scans says
ServerStoreOf(S, scans) ==
    LET scanned == {x \in S : scans[x] # "none"}
        entries ==
            {[key |-> SessionKey(MakeSessionId(x[1], x[2])),
              value |-> ServerSessionAt(x[1], x[2])] : x \in S}
            \cup
            {[key |-> AttendanceKey(STU001, MakeSessionId(x[1], x[2])),
              value |-> ScannedRecord(x[1], x[2], scans[x])] : x \in scanned}
    IN [k \in {e.key : e \in entries} |->
            (CHOOSE e \in entries : e.key = k).value]
MockSessionsOf(S) ==
    LET entries == {MockSessionAt(x[1], x[2]) : x \in S}
    IN [k \in {e.id : e \in entries} |-> CHOOSE e \in entries : e.id = k]
       @@ SampleSessions(StartMillis)
MockAttendanceOf(S, scans) ==
    LET entries == {ScannedRecord(x[1], x[2], scans[x]) :
                        x \in {y \in S : scans[y] # "none"}}
    IN [k \in {e.id : e \in entries} |-> CHOOSE e \in entries : e.id = k]
       @@ SampleAttendance(StartMillis)

\* The profile requests on the stores that session creations and accepted
\* scans of STU001 leave
InitSummary ==
    /\ backend \in {"server", "mock"}
    /\ now = StartMillis + MaxSummarySessions
    /\ \E S \in SUBSET SummarySessions :
         \E scans \in [S -> {"none", "in", "both"}] :
            /\ kv = IF backend = "server" THEN ServerStoreOf(S, scans) ELSE EmptyMap
            /\ sessions = IF backend = "mock" THEN MockSessionsOf(S)
                           ELSE SampleSessions(StartMillis)
            /\ attendance = IF backend = "mock" THEN MockAttendanceOf(S, scans)
                             ELSE SampleAttendance(StartMillis)
    /\ issued = {}
    /\ last = [req |-> NoRequest, res |-> Failure(0, "")]
    /\ pending = [i \in 1..MaxInflight |-> Idle]
ProfileStep ==
    \/ \E u \in {STU001, STU002, FAC001} : GetStudentProfile(User(u), STU001)
    \/ \E studentId \in {STU001, FAC001} : getStudentProfile(studentId)
SpecSummary == InitSummary /\ [][ProfileStep]_vars

\* Scans of two students for two sessions whose ids hold ':' in different
\* places, 'SUB001:<ms>' and 'SUB001:lab:<ms>', both created by FAC001 at
\* start-up time; the scan handlers from [token, signature] on
PairSessions == {SUB001, SUB001_lab} \X {StartMillis}
InitPairs ==
    /\ backend \in {"server", "mock"}
    /\ now = StartMillis
    /\ kv = IF backend = "server"
            THEN ServerStoreOf(PairSessions, [x \in PairSessions |-> "none"])
            ELSE EmptyMap
    /\ sessions = IF backend = "mock" THEN MockSessionsOf(PairSessions)
                   ELSE SampleSessions(StartMillis)
    /\ attendance = SampleAttendance(StartMillis)
    /\ issued = IF backend = "server"
                THEN {generateQRToken(MakeSessionId(x[1], x[2]), Str("IN"),
                                      StartMillis, StartMillis) : x \in PairSessions}
                ELSE {MockQRData(MakeSessionId(x[1], x[2]), Str("IN"),
                                 StartMillis, StartMillis) : x \in PairSessions}
    /\ last = [req |-> NoRequest, res |-> Failure(0, "")]
    /\ pending = [i \in 1..MaxInflight |-> Idle]
PairScanStep ==
    \/ \E u \in Students, q \in issued :
            PostAttendanceScanParsed(User(u), q.token, q.signature, CampusPoint)
    \/ \E u \in Students, q \in issued :
            scanAttendanceParsed(u, q.token, q.signature, CampusPoint)
NextPairs ==
    \/ Tick
    \/ PairScanStep
SpecPairs == InitPairs /\ [][NextPairs]_vars

\* The two backends side by side: each request is given to the server
\* route and to the MockDatabase method with the same inputs at the same
\* clock readings; kv is the server's store, sessions and attendance the
\* mock's, last.res the server's response and last.mock the mock's, and
\* issued pairs the token of the server with the token of the mock
InitBoth ==
    /\ backend = "both"
    /\ now = StartMillis
    /\ kv = EmptyMap
    /\ sessions = SampleSessions(StartMillis)
    /\ attendance = SampleAttendance(StartMillis)
    /\ issued = {}
    /\ last = [req |-> NoRequest, res |-> Failure(0, ""), mock |-> Failure(0, "")]
    /\ pending = [i \in 1..MaxInflight |-> Idle]

\* POST /faculty/session (lines 768-802) and MockDatabase.createSession
\* (lines 271-301) for a faculty caller
BothCreate(facultyId, subjectId, date, startTime, d) ==
    /\ backend = "both"
    /\ now + d \in ClockValues
    /\ LET sessionId == MakeSessionId(subjectId, now)
           inQRData == generateQRToken(sessionId, Str("IN"), now, now + d)
           session == [id |-> sessionId,
                       subjectId |-> subjectId,
                       facultyId |-> facultyId,
                       date |-> date,
                       startTime |-> IF startTime.set THEN startTime.v ELSE now + d,
                       inGenerationTs |-> now + d,
                       inQrToken |-> inQRData.token,
                       inQrSignature |-> inQRData.signature,
                       outGenerationTs |-> Absent,
                       outQrToken |-> Absent,
                       outQrSignature |-> Absent,
                       status |-> "active"]
           qr == MockQRData(sessionId, Str("IN"), now, now + d)
           mockSession == [id |-> sessionId, subjectId |-> subjectId,
                           facultyId |-> facultyId, date |-> date,
                           inGenerationTs |-> IF startTime.set THEN startTime.v
                                              ELSE now,
                           outGenerationTs |-> Absent,
                           status |-> "active"]
           pair == [server |-> inQRData, mock |-> qr]
       IN /\ \/ Cardinality(ServerSessionKeys) < MaxSessions
             \/ KvHas(kv, SessionKey(sessionId))
          /\ Cardinality(issued \cup {pair}) <= MaxTokens
          /\ kv' = KvSet(kv, SessionKey(sessionId), session)
          /\ sessions' = MapSet(sessions, sessionId, mockSession)
          /\ now' = now + d
          /\ issued' = issued \cup {pair}
          /\ last' = [req |-> Request("create", facultyId, sessionId, Undefined, GeoNaN),
                      res |-> Response(200, "", Undefined,
                                Wire(inQRData.token, inQRData.signature), Absent),
                      mock |-> Response(200, "", Undefined,
                                 Wire(qr.token, qr.signature), Absent)]
    /\ UNCHANGED <<backend, attendance, pending>>

\* POST /faculty/session/:id/generate-out (lines 804-833) and
\* MockDatabase.generateOutQR (lines 303-325) for a faculty caller
BothGenerateOut(facultyId, sessionId, d) ==
    /\ backend = "both"
    /\ now + d \in ClockValues
    /\ LET key == SessionKey(sessionId)
           serverOk == KvHas(kv, key) /\ kv[key].facultyId = facultyId
           mockOk == MapHas(sessions, sessionId)
           outQRData == generateQRToken(sessionId, Str("OUT"), now, now + d)
           qr == MockQRData(sessionId, Str("OUT"), now, now + d)
           pair == [server |-> outQRData, mock |-> qr]
       IN /\ (~serverOk /\ ~mockOk) => d = 0
          /\ Cardinality(issued \cup {pair}) <= MaxTokens
          /\ kv' = IF serverOk
                   THEN KvSet(kv, key,
                          [kv[key] EXCEPT
                             !.outGenerationTs = Present(now + d),
                             !.outQrToken = Present(outQRData.token),
                             !.outQrSignature = Present(outQRData.signature)])
                   ELSE kv
          /\ sessions' = IF mockOk
                         THEN MapSet(sessions, sessionId,
                                [sessions[sessionId] EXCEPT
                                   !.outGenerationTs = Present(now + d)])
                         ELSE sessions
          /\ now' = now + d
          /\ issued' = IF serverOk /\ mockOk THEN issued \cup {pair} ELSE issued
          /\ last' = [req |-> Request("out", facultyId, sessionId, Undefined, GeoNaN),
                      res |-> IF serverOk
                              THEN Response(200, "", Undefined,
                                     Wire(outQRData.token, outQRData.signature),
                                     Absent)
                              ELSE Failure(404, "Session not found"),
                      mock |-> IF mockOk
                               THEN Response(200, "", Undefined,
                                      Wire(qr.token, qr.signature), Absent)
                               ELSE Failure(0, "Session not found")]
    /\ UNCHANGED <<backend, attendance, pending>>

\* POST /attendance/scan and MockDatabase.scanAttendance from the
\* destructured [token, signature] on, each given the token its own
\* backend issued for the same request
BothScan(studentId, pair, geo) ==
    /\ backend = "both"
    /\ LET out == ServerScanChecked(kv, User(studentId), pair.server.token,
                                    pair.server.signature, geo, now)
           mock == MockScanChecked(attendance, studentId, pair.mock.token,
                                   geo, now)
       IN /\ kv' = out.kv
          /\ attendance' = mock.attendance
          /\ last' = [req |-> ParsedRequest(studentId, pair.server.token,
                                            pair.server.signature, geo),
                      res |-> out.res,
                      mock |-> mock.res]
    /\ UNCHANGED <<backend, now, sessions, issued, pending>>

NextBoth ==
    \/ Tick
    \/ \E u \in Faculty, startTime \in StartTimes :
            BothCreate(u, SUB001, "2024-01-15", startTime, 0)
    \/ \E u \in Faculty,
           sessionId \in {kv[k].id : k \in ServerSessionKeys} \cup {UnknownSessionId} :
            BothGenerateOut(u, sessionId, 0)
    \/ \E pair \in issued, geo \in {CampusPoint, Geo(0, 0)} :
            BothScan(STU001, pair, geo)
SpecBoth == InitBoth /\ [][NextBoth]_vars

\* a payload written by the caller with a scanType of its own: the copy of
\* an issued token with scanType 'LATE', under the signature of the original
Relabel(token) ==
    LET p == JsonParse(token)
    IN JsonStringify([sessionId |-> p.sessionId, scanType |-> Str("LATE"),
                      timestamp |-> p.timestamp, expiry |-> p.expiry])
Relabelled ==
    {[token |-> Relabel(q.token), signature |-> q.signature] : q \in issued}

\* The scan handlers from [token, signature] on, given the issued pairs
\* and their relabelled copies
ScanTypeStep ==
    \/ \E q \in issued \cup Relabelled :
            PostAttendanceScanParsed(User(STU001), q.token, q.signature, CampusPoint)
    \/ \E q \in issued \cup Relabelled :
            scanAttendanceParsed(STU001, q.token, q.signature, CampusPoint)
NextScanType ==
    \/ Tick
    \/ ServerSessionStep({FAC001}, {SUB001}, {Absent}, {0},
                         {kv[k].id : k \in ServerSessionKeys})
    \/ MockSessionStep({FAC001}, {SUB001}, {Absent}, {0}, MockCreated)
    \/ ScanTypeStep
SpecScanType == Init /\ [][NextScanType]_vars

(***************************************************************************)
(* Properties                                                              *)
(***************************************************************************)
IsScan(l) == l.req.op = "scan"
ByStudent(l) == l.req.caller \in Students
Accepted(l) == l.res.status = 200
OutsideError == "Scan location is outside campus boundary"

\* the stored attendance record of a (student, session) pair, if any
StoredRecord(studentId, sessionId) ==
    IF backend = "server"
    THEN IF KvHas(kv, AttendanceKey(studentId, sessionId))
         THEN Present(kv[AttendanceKey(studentId, sessionId)]) ELSE Absent
    ELSE IF MapHas(attendance, studentId \o <<Colon>> \o sessionId)
         THEN Present(attendance[studentId \o <<Colon>> \o sessionId]) ELSE Absent

\* the issued IN tokens, as the wire strings createSession returned
IssuedIn == {q \in issued : JsonParse(q.token).scanType = Str("IN")}

\* C1: a student who submits the inQrData string that createSession
\* returned, from the campus point and before the token's expiry, gets a
\* success result, and the store then holds the record of (student,
\* session) with inScanTs set and outScanTs absent.
C1_EndToEndInScan ==
    \A q \in IssuedIn :
        (/\ IsScan(last) /\ ByStudent(last)
         /\ last.req.qrData = Wire(q.token, q.signature)
         /\ last.req.geo = CampusPoint
         /\ now <= JsonParse(q.token).expiry)
        => LET r == StoredRecord(last.req.caller, JsonParse(q.token).sessionId)
           IN /\ Accepted(last)
              /\ r.set
              /\ r.v.inScanTs.set
              /\ ~r.v.outScanTs.set
              /\ ~isComplete(r.v)

\* C2: the wire string token + ':' + signature built from generateQRToken,
\* split on ':' with the first two parts taken, gives back the token and the
\* signature that were encoded, and verifyQRToken on them before expiry
\* returns the sessionId and scanType that were encoded.
C2_TokenRoundTrip ==
    backend = "server" =>
        \A q \in issued :
            LET parts == DestructureTwo(SplitColon(Wire(q.token, q.signature)))
                v == verifyQRToken(parts.token, parts.signature, now)
                p == JsonParse(q.token)
            IN /\ parts.token = q.token
               /\ parts.signature = q.signature
               /\ now < p.expiry =>
                    /\ v.ok
                    /\ v.payload.sessionId = p.sessionId
                    /\ v.payload.scanType = p.scanType

\* the attendance records of the server's store
AttendanceOf(store) ==
    [k \in {x \in DOMAIN store : IsAttendanceKey(x)} |-> store[k]]

\* C3: in the server an attendance record is created or changed only by a
\* student's accepted scan whose [token, signature] is a pair the server
\* signed, whose expiry has not passed, whose sessionId names a stored
\* session and whose position is within 2000 m of the campus point, and
\* only the record of (caller, that session) changes; a scan whose token or
\* signature is not as issued is never accepted.
C3_WritesOnlyOnValidScan ==
    [][ backend = "server" =>
        /\ (AttendanceOf(kv') # AttendanceOf(kv)) =>
              LET r == last'.req
                  p == JsonParse(r.qrData.token)
              IN /\ IsScan(last') /\ Accepted(last') /\ ByStudent(last')
                 /\ r.qrData \in issued
                 /\ r.qrData.signature = <<HmacHex(JWT_SECRET, r.qrData.token)>>
                 /\ now <= p.expiry
                 /\ KvHas(kv, SessionKey(p.sessionId))
                 /\ FloatLeqMetres(calculateDistance(r.geo, CAMPUS_LAT, CAMPUS_LNG),
                                   CAMPUS_RADIUS)
                 /\ DOMAIN kv \subseteq DOMAIN kv'
                 /\ \A k \in DOMAIN kv' :
                        (~KvHas(kv, k) \/ kv'[k] # kv[k])
                            => k = AttendanceKey(r.caller, p.sessionId)
        /\ (IsScan(last') /\ last'.req.qrData \notin issued')
              => (~Accepted(last') /\ (last' # last => kv' = kv)) ]_vars

\* a record was written by an accepted scan, and a scan of an issued token
\* whose payload was altered (signature kept) was then refused at the
\* campus point
C3_Witness ==
    /\ backend = "server"
    /\ ServerAttendanceKeys # {}
    /\ IsScan(last) /\ ByStudent(last)
    /\ last.req.qrData \in Extended \cup Retargeted
    /\ last.req.geo = CampusPoint
    /\ ~Accepted(last)

\* C4: a scan request that is rejected leaves the session store and the
\* attendance store as they were; a student's scan from (0,0) is rejected
\* with the outside-campus error.
C4_RejectedScanWritesNothing ==
    [][ /\ (IsScan(last') /\ ~Accepted(last'))
            => (kv' = kv /\ sessions' = sessions /\ attendance' = attendance)
        /\ (IsScan(last') /\ ByStudent(last') /\ last'.req.geo = Geo(0, 0))
            => (~Accepted(last') /\ last'.res.error = OutsideError) ]_vars

\* a student whose IN scan is on record scanned the issued, unexpired IN
\* token again from (0,0) and was rejected as outside the campus
C4_Witness ==
    /\ IsScan(last) /\ ByStudent(last)
    /\ last.req.geo = Geo(0, 0)
    /\ last.req.qrData \in IssuedIn
    /\ now < JsonParse(last.req.qrData.token).expiry
    /\ StoredRecord(last.req.caller,
                    JsonParse(last.req.qrData.token).sessionId).set
    /\ last.res.error = OutsideError

\* a field pair that is set stays as it is
KeepsFirstWrite(old, new) ==
    /\ old.inScanTs.set => /\ new.inScanTs = old.inScanTs
                            /\ new.inScanLocation = old.inScanLocation
    /\ old.outScanTs.set => /\ new.outScanTs = old.outScanTs
                             /\ new.outScanLocation = old.outScanLocation

C7_ExpiryBoundary ==
    \A q \in issued :
        LET expiry == JsonParse(q.token).expiry
        IN IF backend = "server"
           THEN verifyQRToken(q.token, q.signature, now).ok <=> (now <= expiry)
           ELSE (MockScanParsed(attendance, STU001, q.token, CampusPoint, now).res.error
                    # "QR code has expired") <=> (now <= expiry)

\* C8: a well-formed payload whose signature was replaced by garbage is
\* rejected with an error of its own, which is not the error given for a
\* string that is no token at all.
C8_SignatureMismatchIsSpecific ==
    (/\ IsScan(last) /\ ByStudent(last)
     /\ last.req.geo = CampusPoint
     /\ \E q \in issued : last.req.qrData = Wire(q.token, GarbageSignature))
    => LET malformed ==
             IF backend = "server"
             THEN ServerScan(kv, User(STU001), Str("not-a-qr-code"), CampusPoint, now).res
             ELSE MockScan(attendance, STU001, Str("not-a-qr-code"), CampusPoint, now).res
       IN /\ ~Accepted(last)
          /\ last.res.error # malformed.error

TokenStepFails(qrData) ==
    LET parts == DestructureTwo(SplitColon(qrData))
    IN IF backend = "server"
       THEN ~verifyQRToken(parts.token, parts.signature, now).ok
       ELSE \/ JsonParse(parts.token).kind # "object"
            \/ (JsonParse(parts.token).has /\ JsonParse(parts.token).expiry < now)
TokenErrors == {"Invalid or expired QR code", "Invalid QR code format",
                "QR code has expired", "TypeError"}

\* C10: the error reported is that of the first failing step in the order
\* geofence, token verification, session lookup.
C10_CheckOrder ==
    (IsScan(last) /\ ByStudent(last) /\ last.req.qrData # Undefined)
    => LET outside == last.res.error = OutsideError
           geoFails == ~FloatLeqMetres(
                          calculateDistance(last.req.geo, CAMPUS_LAT, CAMPUS_LNG),
                          CAMPUS_RADIUS)
       IN /\ geoFails => outside
          /\ (~geoFails /\ TokenStepFails(last.req.qrData))
                => last.res.error \in TokenErrors
          /\ last.res.error = "Session not found"
                => (~geoFails /\ ~TokenStepFails(last.req.qrData))

\* an in-campus scan with a token of the caller's own making, which names
\* no stored session, was rejected with the token error
C10_Witness ==
    /\ IsScan(last) /\ ByStudent(last)
    /\ last.req.geo = CampusPoint
    /\ last.req.qrData = HomeMadeWire
    /\ last.res.error \in TokenErrors

\* the in fields, and the out fields, of a record are the same in two records
SameIn(a, b) == a.inScanTs = b.inScanTs /\ a.inScanLocation = b.inScanLocation
SameOut(a, b) == a.outScanTs = b.outScanTs /\ a.outScanLocation = b.outScanLocation

IssuedOut == {q \in issued : JsonParse(q.token).scanType = Str("OUT")}

\* C12: a student who has an IN scan in a session and submits the outQrData
\* string that generate-out returned for it, from the campus point and
\* before the token's expiry, gets a success result; the record then has
\* inScanTs and outScanTs, and getSessionAttendance reports it complete.
C12_EndToEndOutScan ==
    \A q \in IssuedOut :
        LET p == JsonParse(q.token)
            r == StoredRecord(last.req.caller, p.sessionId)
        IN (/\ IsScan(last) /\ ByStudent(last)
            /\ last.req.qrData = Wire(q.token, q.signature)
            /\ last.req.geo = CampusPoint
            /\ now <= p.expiry
            /\ r.set /\ r.v.inScanTs.set)
           => /\ Accepted(last)
              /\ r.v.outScanTs.set
              /\ Enriched(r.v).isComplete

\* C13: on the server a session is stored or changed only by an accepted
\* request of a faculty-role caller and then carries that caller's id as
\* facultyId, and an attendance record is stored or changed only by an
\* accepted scan of a student-role caller, under that caller's own id.
C13_RoleOfWriter ==
    [][ backend = "server" =>
        /\ DOMAIN kv \subseteq DOMAIN kv'
        /\ \A k \in DOMAIN kv' :
              (~KvHas(kv, k) \/ kv'[k] # kv[k]) =>
                LET caller == last'.req.caller
                IN /\ Accepted(last')
                   /\ IF IsSessionKey(k)
                      THEN /\ last'.req.op \in {"create", "out"}
                           /\ User(caller).role = "faculty"
                           /\ kv'[k].facultyId = caller
                      ELSE /\ IsAttendanceKey(k)
                           /\ IsScan(last')
                           /\ User(caller).role = "student"
                           /\ kv'[k].studentId = caller
                           /\ k = AttendanceKey(caller, kv'[k].sessionId) ]_vars

\* two students have a record each and a faculty member's scan of an
\* issued token at the campus point was refused
C13_Witness ==
    /\ backend = "server"
    /\ \A u \in Students : \E k \in ServerAttendanceKeys : kv[k].studentId = u
    /\ IsScan(last) /\ last.req.caller = FAC001
    /\ last.req.qrData \in issued
    /\ last.res.status = 403

\* C14: on the server a caller who is not the faculty member stored as the
\* session's facultyId gets an error from getSessionAttendance and no
\* records.
C14_OwnerOnlyRead ==
    (/\ backend = "server"
     /\ last.req.op = "attendance"
     /\ KvHas(kv, SessionKey(last.req.sessionId))
     /\ kv[SessionKey(last.req.sessionId)].facultyId # last.req.caller)
    => /\ ~Accepted(last)
       /\ last.res.attendance = {}

\* whether the generate-out request of the step finds no session it may
\* change: the id is unknown or, on the server, the caller is a faculty
\* member who does not own the session
OutFindsNoSession(req) ==
    IF backend = "server"
    THEN /\ User(req.caller).role = "faculty"
         /\ \/ ~KvHas(kv, SessionKey(req.sessionId))
            \/ kv[SessionKey(req.sessionId)].facultyId # req.caller
    ELSE ~MapHas(sessions, req.sessionId)

C16_OutGenerationOnce ==
    [][ last'.req.op = "out" =>
        /\ \A k \in ServerSessionKeys :
              kv[k].outGenerationTs.set
                => (KvHas(kv', k) /\ kv'[k].outGenerationTs = kv[k].outGenerationTs)
        /\ \A k \in DOMAIN sessions :
              sessions[k].outGenerationTs.set
                => (MapHas(sessions', k)
                    /\ sessions'[k].outGenerationTs = sessions[k].outGenerationTs) ]_vars

\* C17: every stored session whose outGenerationTs is set has it strictly
\* later than its inGenerationTs.
C17_OutAfterIn ==
    /\ \A k \in ServerSessionKeys :
          kv[k].outGenerationTs.set => kv[k].outGenerationTs.v > kv[k].inGenerationTs
    /\ \A k \in DOMAIN sessions :
          sessions[k].outGenerationTs.set
            => sessions[k].outGenerationTs.v > sessions[k].inGenerationTs

\* the status that goes with the presence of outGenerationTs
StatusMatchesOut(session) ==
    session.status = IF session.outGenerationTs.set THEN "completed" ELSE "active"

\* C18: a stored session has status 'completed' exactly when its
\* outGenerationTs is present and 'active' exactly when it is absent.
C18_StatusFollowsOut ==
    /\ \A k \in ServerSessionKeys : StatusMatchesOut(kv[k])
    /\ \A k \in DOMAIN sessions : StatusMatchesOut(sessions[k])

\* C19: a createSession that succeeds and writes the session store returns
\* an id that no stored session had before the call.
C19_FreshSessionId ==
    [][ (/\ last'.req.op = "create" /\ Accepted(last')
         /\ (kv' # kv \/ sessions' # sessions))
        => /\ ~KvHas(kv, SessionKey(last'.req.sessionId))
           /\ ~MapHas(sessions, last'.req.sessionId) ]_vars

\* the fields of a session that are written at creation
SameCreation(a, b) ==
    /\ a.id = b.id /\ a.subjectId = b.subjectId /\ a.facultyId = b.facultyId
    /\ a.date = b.date /\ a.inGenerationTs = b.inGenerationTs

\* C20: a stored session stays stored, and no step changes its id,
\* subjectId, facultyId, date or inGenerationTs.
C20_SessionLifecycle ==
    [][ /\ \A k \in ServerSessionKeys :
              KvHas(kv', k) /\ SameCreation(kv[k], kv'[k])
        /\ \A k \in DOMAIN sessions :
              MapHas(sessions', k) /\ SameCreation(sessions[k], sessions'[k]) ]_vars

\* the session stored under an id, in the store of the backend
StoredSession(sessionId) ==
    IF backend = "server"
    THEN IF KvHas(kv, SessionKey(sessionId))
         THEN Present(kv[SessionKey(sessionId)]) ELSE Absent
    ELSE IF MapHas(sessions, sessionId)
         THEN Present(sessions[sessionId]) ELSE Absent

\* C21: right after a createSession that succeeded the store holds a
\* session under the returned id with status 'active', no outGenerationTs,
\* the caller as facultyId, the subject its id is built from, a date that
\* was given and inGenerationTs read from the clock during the call,
\* whatever startTime was given; the returned wire string is an issued IN
\* token for that id.
C21_CreatedSession ==
    (last.req.op = "create" /\ Accepted(last))
    => LET s == StoredSession(last.req.sessionId)
       IN /\ s.set
          /\ s.v.id = last.req.sessionId
          /\ s.v.status = "active"
          /\ ~s.v.outGenerationTs.set
          /\ s.v.facultyId = last.req.caller
          /\ s.v.id = MakeSessionId(s.v.subjectId, last.req.at)
          /\ s.v.date \in Dates
          /\ s.v.inGenerationTs >= last.req.at
          /\ s.v.inGenerationTs <= last.req.at + MaxSkew
          /\ \E q \in IssuedIn :
                /\ last.res.wire = Wire(q.token, q.signature)
                /\ JsonParse(q.token).sessionId = last.req.sessionId

\* C22: no stored session lacks its subjectId or its date, no issued token
\* names a session id built from a missing subjectId, and a createSession
\* called without subjectId did not succeed.
C22_CreateValidates ==
    /\ \A k \in ServerSessionKeys :
          kv[k].subjectId # Undefined /\ kv[k].date # DateLeftOut
    /\ \A k \in DOMAIN sessions :
          sessions[k].subjectId # Undefined /\ sessions[k].date # DateLeftOut
    /\ \A q \in issued : JsonParse(q.token).sessionId[1] # Undefined[1]
    /\ (last.req.op = "create" /\ last.req.sessionId[1] = Undefined[1])
          => ~Accepted(last)

\* C23: every issued token has expiry = timestamp + 1,800,000 ms.
C23_ExpiryIsTimestampPlusValidity ==
    \A q \in issued :
        JsonParse(q.token).expiry = JsonParse(q.token).timestamp + QR_VALIDITY

\* the stored sessions of a subject, and those of them for which the
\* student's stored record has both scans
SessionsOfSubject(subject) ==
    IF backend = "server"
    THEN {kv[k].id : k \in {x \in ServerSessionKeys : kv[x].subjectId = subject}}
    ELSE {k \in DOMAIN sessions : sessions[k].subjectId = subject}
AttendedOfSubject(studentId, subject) ==
    {x \in SessionsOfSubject(subject) :
        /\ StoredRecord(studentId, x).set
        /\ isComplete(StoredRecord(studentId, x).v)}

\* C24: in the answer to a student's profile request, for each subject
\* totalSessions is the number of stored sessions of that subject,
\* attendedSessions the number of them for which the student's record has
\* inScanTs and outScanTs, percentage = round(100 * attended / total) or 0
\* for no sessions, attended <= total and 0 <= percentage <= 100.
C24_AttendanceSummary ==
    (last.req.op = "profile" /\ Accepted(last))
    => \A a \in last.res.attendance :
          /\ a.totalSessions = Cardinality(SessionsOfSubject(a.subject))
          /\ a.attendedSessions =
                Cardinality(AttendedOfSubject(last.req.sessionId, a.subject))
          /\ a.percentage =
                IF a.totalSessions = 0 THEN 0
                ELSE (200 * a.attendedSessions + a.totalSessions)
                        \div (2 * a.totalSessions)
          /\ a.attendedSessions <= a.totalSessions
          /\ a.percentage >= 0 /\ a.percentage <= 100

\* whether a record is the one of the pair (studentId, sessionId)
OfPair(record, studentId, sessionId) ==
    record.studentId = studentId /\ record.sessionId = sessionId

SessionView(session) ==
    [id |-> session.id, inGenerationTs |-> session.inGenerationTs,
     outGenerationTs |-> session.outGenerationTs, status |-> session.status]

RecordIn(store, key, fresh) == IF key \in DOMAIN store THEN store[key] ELSE fresh

DisclosedPairs(res) ==
    {q \in issued :
        \/ res.wire = Wire(q.token, q.signature)
        \/ /\ res.session.set
           /\ \/ /\ res.session.v.inQrToken = q.token
                 /\ res.session.v.inQrSignature = q.signature
              \/ /\ res.session.v.outQrToken = Present(q.token)
                 /\ res.session.v.outQrSignature = Present(q.signature)}

\* C28: on the server a response that carries a token together with its
\* valid signature is the response of session creation or of generate-out
\* to a faculty caller; no response to a student carries one.
C28_TokensOnlyToFaculty ==
    (backend = "server" /\ DisclosedPairs(last.res) # {})
        => /\ last.req.op \in {"create", "out"}
           /\ last.req.caller \in Faculty

\* C29: referential integrity: every attendance record is stored under the
\* key built from its own studentId and sessionId, its id is studentId +
\* ':' + sessionId, its sessionId names a stored session, and its
\* subjectId is that session's subjectId.
C29_ReferentialIntegrity ==
    /\ \A k \in ServerAttendanceKeys :
          LET r == kv[k]
          IN /\ k = <<Lit("attendance"), Colon>> \o r.studentId
                       \o <<Colon>> \o r.sessionId
             /\ r.id = r.studentId \o <<Colon>> \o r.sessionId
             /\ KvHas(kv, SessionKey(r.sessionId))
             /\ kv[SessionKey(r.sessionId)].subjectId = r.subjectId
    /\ \A k \in DOMAIN attendance :
          LET r == attendance[k]
          IN /\ k = r.studentId \o <<Colon>> \o r.sessionId
             /\ r.id = k
             /\ MapHas(sessions, r.sessionId)
             /\ sessions[r.sessionId].subjectId = r.subjectId

\* an accepted scan has just stored the record of a session created since
\* start-up
C29_Witness ==
    /\ IsScan(last) /\ Accepted(last)
    /\ LET sessionId == JsonParse(last.req.qrData.token).sessionId
       IN /\ StoredRecord(last.req.caller, sessionId).set
          /\ sessionId \notin DOMAIN SampleSessions(StartMillis)

\* a record whose timestamps and locations come in pairs, with at least
\* one direction set
PairedFields(r) ==
    /\ r.inScanTs.set <=> r.inScanLocation.set
    /\ r.outScanTs.set <=> r.outScanLocation.set
    /\ r.inScanTs.set \/ r.outScanTs.set

\* C30: in every attendance record inScanTs is present exactly when
\* inScanLocation is, outScanTs exactly when outScanLocation is, and at
\* least one of the two directions is set.
C30_TimestampWithLocation ==
    /\ \A k \in ServerAttendanceKeys : PairedFields(kv[k])
    /\ \A k \in DOMAIN attendance : PairedFields(attendance[k])

\* an accepted OUT scan has just completed a record that had its IN fields
C30_Witness ==
    /\ IsScan(last) /\ Accepted(last)
    /\ LET p == JsonParse(last.req.qrData.token)
           r == StoredRecord(last.req.caller, p.sessionId)
       IN /\ p.scanType = Str("OUT")
          /\ r.set /\ r.v.inScanTs.set /\ r.v.outScanLocation.set
          /\ r.v.outScanTs = Present(last.req.at)
====
